---- MODULE Spec2Model ----
(***************************************************************************)
(* ModSlayer (src/mod_manager.py): the mod registry (mods_data), its       *)
(* persisted store (mods_data.json), the managed mods folder and the list  *)
(* view (mod_tree), with the handlers that install, remove, toggle and     *)
(* move mods; the path catalog (game path, mods folder, recent paths,      *)
(* favorites) with its configuration file; and the launcher.               *)
(*                                                                         *)
(* Paths and names are sequences of one-character strings, so that         *)
(* os.path.basename and os.path.splitext are computed, not assumed.        *)
(* Filesystem calls that can fail (shutil.copy2, shutil.copytree,          *)
(* os.remove, shutil.rmtree, open/json.dump) are a choice over the         *)
(* outcomes the operating system can produce.                              *)
(***************************************************************************)
EXTENDS Integers, Sequences, FiniteSets, TLC

VARIABLES
  mods_data,    \* self.mods_data: the in-memory list of mod records
  mods_file,    \* the content of self.mods_file (mods_data.json) on disk
  mods_folder,  \* the entries of the directory self.mods_folder, by entry name
  mod_tree,     \* self.mod_tree: the rows of the list view, as last refreshed
  ops,          \* how many handler runs and outside events there have been
  mishaps,      \* history: what has gone wrong so far: a handler ended in an
                \* exception ("exception"), a path was registered twice ("duplicate")
  last,         \* history: what the last handler did (written, never read, by handlers)
  game_path,    \* self.game_path
  mods_folder_path,  \* self.mods_folder, the path string (mods_folder above is the
                \* content of the directory it names)
  recent_paths, \* self.recent_paths: by kind, the recently used paths
  favorites,    \* self.favorites: by kind, the favorite paths
  config_file,  \* the content of self.config_file (modslayer_config.ini) on disk
  recent_log,   \* history: by kind, the paths add_to_recent_paths recorded, in call order
  extras,       \* history: how many calls on the catalog were other than the
                \* first insert of a path with a save that went through
  called,       \* history: the last call on the path catalog
  game_dir,     \* os.listdir(self.game_path): the names in the game folder, in
                \* the order the operating system lists them
  launch        \* where launch_game stands (idle, or waiting in choose_executable)
                \* and, as history, what its last run did

\* The registry side of the program and the history of its handlers.
registry_vars == <<mods_data, mods_file, mods_folder, mod_tree, mishaps, last>>

\* The path catalog and the history of its calls.
catalog_vars == <<game_path, mods_folder_path, recent_paths, favorites, config_file,
                  recent_log, called>>

\* The game folder and the launcher.
launch_vars == <<game_dir, launch>>

vars == <<mods_data, mods_file, mods_folder, mod_tree, ops, mishaps, last,
          game_path, mods_folder_path, recent_paths, favorites, config_file,
          recent_log, extras, called, game_dir, launch>>

\* The longest run explored of the launcher.
MaxLaunchOps == 4

\* The most files a game folder holds.
MaxChildren == 2

\* The longest run explored of calls on the whole path catalog.
MaxConfigOps == 4

\* The most first inserts of paths into the recent lists in one run.
MaxInserts == 12

\* The most calls of one run that are other than a first insert whose save
\* goes through: a path inserted again, a call that is ignored, a save
\* that raises.
MaxExtras == 2

\* The longest run explored: handler runs plus outside events.
MaxOps == 5

-----------------------------------------------------------------------------
(* Inputs: the source paths the user can pick.                             *)

\* Files offered to install_mod_file: they differ in the extension only, so
\* their records share the display name "A".
FileSources ==
  { <<"s", "/", "A", ".", "z">>,
    <<"s", "/", "A", ".", "r">> }

\* Folders offered to install_mod_folder: one with a display name of its
\* own, "B", and one whose name is the file name of a file source, so that a
\* file and a tree can meet at one path of the mods folder.
FolderSources ==
  { <<"t", "/", "B">>,
    <<"t", "/", "A", ".", "r">> }

-----------------------------------------------------------------------------
(* os.path helpers.                                                        *)

\* The positions of character c in s.
Positions(s, c) == { i \in 1..Len(s) : s[i] = c }

SetMax(S) == CHOOSE m \in S : \A x \in S : x <= m

\* os.path.basename: what follows the last "/".
basename(path) ==
  LET slashes == Positions(path, "/")
  IN  IF slashes = {} THEN path
      ELSE SubSeq(path, SetMax(slashes) + 1, Len(path))

\* os.path.splitext(...)[0]: the name up to its last dot, unless that dot
\* only follows leading dots (".bashrc" has no extension).
splitext(filename) ==
  LET dots == Positions(filename, ".")
  IN  IF dots = {} THEN filename
      ELSE LET d == SetMax(dots)
           IN  IF \A i \in 1..(d - 1) : filename[i] = "." THEN filename
               ELSE SubSeq(filename, 1, d - 1)

\* Every entry name an install can create in the mods folder.
DestNames == { basename(p) : p \in FileSources \cup FolderSources }

-----------------------------------------------------------------------------
(* The registry's records and their persisted form.                        *)

\* A record that starts disabled.
mod_entry_disabled(n, mod_name, filename, path, type) ==
  [ id            |-> n,
    name          |-> mod_name,
    file_path     |-> filename,
    original_path |-> path,
    enabled       |-> FALSE,
    priority      |-> n,
    type          |-> type ]

\* A record that is put first in the load order.
mod_entry_first(n, mod_name, filename, path, type) ==
  [ id            |-> n,
    name          |-> mod_name,
    file_path     |-> filename,
    original_path |-> path,
    enabled       |-> TRUE,
    priority      |-> 0,
    type          |-> type ]

\* The dict built by install_mod_file / install_mod_folder for a registry
\* that holds n records.
mod_entry(n, mod_name, filename, path, type) ==
  [ id            |-> n,
    name          |-> mod_name,
    file_path     |-> filename,
    original_path |-> path,
    enabled       |-> TRUE,
    priority      |-> n,
    type          |-> type ]

\* json.dump of one value of a record: a bool becomes the literal true/false.
json_bool(b) == IF b THEN "true" ELSE "false"

\* json.dump(self.mods_data): the document written to the store.
json_dump(data) ==
  [ i \in 1..Len(data) |-> [ data[i] EXCEPT !.enabled = json_bool(data[i].enabled) ] ]

\* A reader that takes every record of the document for enabled.
json_load_enabled(doc) ==
  [ i \in 1..Len(doc) |-> [ doc[i] EXCEPT !.enabled = TRUE ] ]

\* json.load of a document written by json_dump.
json_load(doc) ==
  [ i \in 1..Len(doc) |-> [ doc[i] EXCEPT !.enabled = (doc[i].enabled = "true") ] ]

\* The store before anything was saved.
NoFile == [ kind |-> "absent", doc |-> <<>> ]

\* A store whose write stopped partway: open(..., 'w') truncated it and
\* json.dump did not finish.
CorruptFile == [ kind |-> "corrupt", doc |-> <<>> ]

\* A save that reports success without writing anything.
save_skipped(data) == { [ ok |-> TRUE, file |-> mods_file ] }

\* save_mods_data: the outcomes of open(self.mods_file, 'w') and json.dump.
\* Either the document is written, or open raises and the store is as it
\* was, or the write raises after the truncation.
save_mods_data(data) ==
  { [ ok |-> TRUE,  file |-> [ kind |-> "json", doc |-> json_dump(data) ] ],
    [ ok |-> FALSE, file |-> mods_file ],
    [ ok |-> FALSE, file |-> CorruptFile ] }

-----------------------------------------------------------------------------
(* The mods folder.  An entry is "none" (no such path), "file", "dir", or  *)
(* what an interrupted copy or delete leaves: "partial_file" (a truncated  *)
(* file) or "partial_dir" (a tree with only some of its content).          *)

EntryKinds == { "none", "file", "dir", "partial_file", "partial_dir" }

FileKinds == { "file", "partial_file" }
DirKinds  == { "dir", "partial_dir" }

\* A check that takes every path to exist.
path_exists_always(entry) == TRUE

\* os.path.exists(mod_path)
path_exists(entry) == entry # "none"

\* shutil.copy2(file_path, dest_path) by the entry at dest_path.  Onto a
\* directory the file is written inside it, which leaves the entry a
\* directory whether or not the copy completes.
copy2(entry) ==
  IF entry \in DirKinds
  THEN { [ ok |-> TRUE,  entry |-> entry ],
         [ ok |-> FALSE, entry |-> entry ] }
  ELSE { [ ok |-> TRUE,  entry |-> "file" ],
         [ ok |-> FALSE, entry |-> entry ],
         [ ok |-> FALSE, entry |-> "partial_file" ] }

\* shutil.copytree(folder_path, dest_path): raises at once when dest_path
\* exists; otherwise the tree is copied, or the copy raises before or after
\* creating part of it.
copytree(entry) ==
  IF entry # "none"
  THEN { [ ok |-> FALSE, entry |-> entry ] }
  ELSE { [ ok |-> TRUE,  entry |-> "dir" ],
         [ ok |-> FALSE, entry |-> "none" ],
         [ ok |-> FALSE, entry |-> "partial_dir" ] }

\* os.remove(mod_path): raises on a directory or a missing path.
os_remove(entry) ==
  IF entry \in FileKinds
  THEN { [ ok |-> TRUE,  entry |-> "none" ],
         [ ok |-> FALSE, entry |-> entry ] }
  ELSE { [ ok |-> FALSE, entry |-> entry ] }

\* shutil.rmtree(mod_path): raises on a file or a missing path; a failure
\* partway leaves part of the tree.
rmtree(entry) ==
  IF entry \in DirKinds
  THEN { [ ok |-> TRUE,  entry |-> "none" ],
         [ ok |-> FALSE, entry |-> entry ],
         [ ok |-> FALSE, entry |-> "partial_dir" ] }
  ELSE { [ ok |-> FALSE, entry |-> entry ] }

\* remove_mod's payload step: the delete is attempted only when the path
\* exists, by rmtree for a 'folder' record and os.remove otherwise.
remove_payload(type, entry) ==
  IF path_exists(entry)
  THEN { [ ok |-> d.ok, entry |-> d.entry, attempted |-> TRUE ] :
           d \in (IF type = "folder" THEN rmtree(entry) ELSE os_remove(entry)) }
  ELSE { [ ok |-> TRUE, entry |-> entry, attempted |-> FALSE ] }

-----------------------------------------------------------------------------
(* The list view and the registry's list operations.                       *)

\* list.insert of record m into a list sorted by priority, after every
\* record whose priority is not greater (sorted() is stable).
RECURSIVE insert_sorted(_, _)
insert_sorted(m, list) ==
  IF list = <<>> THEN <<m>>
  ELSE IF m.priority < list[1].priority THEN <<m>> \o list
       ELSE <<list[1]>> \o insert_sorted(m, Tail(list))

\* sorted(self.mods_data, key=lambda x: x['priority'])
RECURSIVE sorted_mods(_)
sorted_mods(data) ==
  IF data = <<>> THEN <<>>
  ELSE insert_sorted(data[Len(data)], sorted_mods(SubSeq(data, 1, Len(data) - 1)))

\* refresh_mod_list: the rows of the view, one per record in priority
\* order: text = name, values = (file_path, status, priority).
refresh_mod_list(data) ==
  LET s == sorted_mods(data)
  IN  [ i \in 1..Len(s) |->
          [ text      |-> s[i].name,
            file_path |-> s[i].file_path,
            status    |-> IF s[i].enabled THEN "Enabled" ELSE "Disabled",
            priority  |-> s[i].priority ] ]

\* The lookup loop of remove_mod and move_mod: the index of the first
\* record whose name is mod_name, 0 for None.
find_mod(data, mod_name) ==
  LET hits == { i \in 1..Len(data) : data[i].name = mod_name }
  IN  IF hits = {} THEN 0 ELSE CHOOSE i \in hits : \A j \in hits : i <= j

\* A renumbering pass that changes nothing.
keep_priorities(data) == data

\* "Update priorities": for i, mod in enumerate(self.mods_data):
\* mod['priority'] = i  (positions here count from 1, Python's from 0).
update_priorities(data) ==
  [ i \in 1..Len(data) |-> [ data[i] EXCEPT !.priority = i - 1 ] ]

\* self.mods_data.pop(mod_index)
pop(data, mod_index) ==
  SubSeq(data, 1, mod_index - 1) \o SubSeq(data, mod_index + 1, Len(data))

\* self.mods_data[mod_index], self.mods_data[new_index] =
\*     self.mods_data[new_index], self.mods_data[mod_index]
swap(data, mod_index, new_index) ==
  [ data EXCEPT ![mod_index] = data[new_index], ![new_index] = data[mod_index] ]

\* An install that registers the record whether or not the copy succeeded.
register_always(data, mod_data, copied) == Append(data, mod_data)

\* install_mod_*: self.mods_data.append(mod_data) comes after the copy, so
\* it is reached only when the copy did not raise.
register(data, mod_data, copied) ==
  IF copied THEN Append(data, mod_data) ELSE data

\* A remove that drops the record whether or not the delete succeeded.
unregister_always(data, mod_index, deleted) ==
  update_priorities(pop(data, mod_index))

\* remove_mod: the pop and the renumbering come after the delete of the
\* payload, so they are reached only when the delete did not raise.
unregister(data, mod_index, deleted) ==
  IF deleted THEN update_priorities(pop(data, mod_index)) ELSE data

\* History: the record the selected row of the view stands for, as an index
\* into mods_data, when the view shows the registry as it is (row r shows the
\* r-th record in priority order); 0 when the view is stale.
row_target(row) ==
  IF mod_tree = refresh_mod_list(mods_data)
  THEN CHOOSE i \in 1..Len(mods_data) : mods_data[i] = sorted_mods(mods_data)[row]
  ELSE 0

\* History record of one handler run: the handler and how it ended; for a
\* handler that works on the selection, the row selected, the index of the
\* record the lookup found (0 for none) and row_target of the row; for
\* remove_mod, what os.path.exists said and whether a delete was attempted;
\* for move_mod, the direction.
Done(op, result, sel) ==
  [ op |-> op, result |-> result,
    row |-> sel.row, hit |-> sel.hit, target |-> sel.target,
    exists |-> sel.exists, attempted |-> sel.attempted, direction |-> sel.direction ]

NoSel ==
  [ row |-> 0, hit |-> 0, target |-> 0,
    exists |-> FALSE, attempted |-> FALSE, direction |-> 0 ]

Sel(row, hit) == [ NoSel EXCEPT !.row = row, !.hit = hit, !.target = row_target(row) ]

-----------------------------------------------------------------------------
(* The path catalog and its persisted form, modslayer_config.ini.  A path  *)
(* is a sequence of one-character strings.                                 *)

\* self.max_recent_items
max_recent_items == 10

\* The keys of self.recent_paths and of self.favorites.
RecentKinds == { "game", "mods", "files" }
FavoriteKinds == { "game", "mods" }

\* s.lstrip() and s.rstrip() for the whitespace of the paths at hand.
RECURSIVE lstrip(_)
lstrip(s) ==
  IF s # <<>> /\ s[1] = " " THEN lstrip(Tail(s)) ELSE s

RECURSIVE rstrip(_)
rstrip(s) ==
  IF s # <<>> /\ s[Len(s)] = " " THEN rstrip(SubSeq(s, 1, Len(s) - 1)) ELSE s

\* s.strip()
strip(s) == rstrip(lstrip(s))

\* '|'.join(paths)
RECURSIVE join(_)
join(paths) ==
  IF paths = <<>> THEN <<>>
  ELSE IF Len(paths) = 1 THEN paths[1]
  ELSE paths[1] \o <<"|">> \o join(Tail(paths))

\* s.split('|'): the pieces between the delimiters, one more than there
\* are delimiters.
RECURSIVE split(_)
split(s) ==
  LET bars == Positions(s, "|")
  IN  IF bars = {} THEN <<s>>
      ELSE LET b == CHOOSE i \in bars : \A j \in bars : i <= j
           IN  <<SubSeq(s, 1, b - 1)>> \o split(SubSeq(s, b + 1, Len(s)))

\* paths[:n]
take(paths, n) == SubSeq(paths, 1, IF Len(paths) < n THEN Len(paths) ELSE n)

\* [p.strip() for p in paths_str.split('|') if p.strip()]
parse_paths(paths_str) ==
  LET pieces == split(paths_str)
      nonempty(p) == strip(p) # <<>>
      kept == SelectSeq(pieces, nonempty)
  IN  [ i \in 1..Len(kept) |-> strip(kept[i]) ]

\* The values save_config hands to ConfigParser, by section and key.
config_values(game, mods, recent, favs) ==
  [ game_path   |-> game,
    mods_folder |-> mods,
    recent      |-> [ k \in RecentKinds |-> join(take(recent[k], max_recent_items)) ],
    favorites   |-> [ k \in FavoriteKinds |-> join(favs[k]) ] ]

\* No configuration file yet.
NoConfig == [ kind |-> "absent" ]

\* A configuration file whose write stopped after open(..., 'w') truncated it.
EmptyConfig == [ kind |-> "empty" ]

\* What open(self.config_file, 'w') and config.write can do: write the
\* file; raise at the open, the file as it was; raise after the truncation.
SaveOutcomes == { "written", "unchanged", "truncated" }

\* save_config with the given outcome, on the file as it is.
save_config(file, values, outcome) ==
  IF outcome = "written"
  THEN [ ok |-> TRUE, file |-> [ kind |-> "ini", values |-> values ] ]
  ELSE IF outcome = "unchanged"
  THEN [ ok |-> FALSE, file |-> file ]
  ELSE [ ok |-> FALSE, file |-> EmptyConfig ]

\* config.get(section, key, fallback=''): ConfigParser strips the
\* whitespace around a value when it reads the file.
config_get(value) == strip(value)

\* The catalog of a fresh ModManager (__init__ before load_config).
FreshCatalog ==
  [ game_path    |-> <<>>,
    mods_folder  |-> <<>>,
    recent_paths |-> [ k \in RecentKinds |-> <<>> ],
    favorites    |-> [ k \in FavoriteKinds |-> <<>> ] ]

\* load_config on a fresh ModManager: nothing when the file does not exist;
\* from a file without sections the two paths fall back to ''; a list whose
\* stored string is empty stays as __init__ made it.
load_config(file) ==
  IF file.kind = "absent" THEN FreshCatalog
  ELSE IF file.kind = "empty" THEN FreshCatalog
  ELSE [ game_path    |-> config_get(file.values.game_path),
         mods_folder  |-> config_get(file.values.mods_folder),
         recent_paths |-> [ k \in RecentKinds |->
                              LET paths_str == config_get(file.values.recent[k])
                              IN  IF paths_str # <<>> THEN parse_paths(paths_str) ELSE <<>> ],
         favorites    |-> [ k \in FavoriteKinds |->
                              LET favorites_str == config_get(file.values.favorites[k])
                              IN  IF favorites_str # <<>> THEN parse_paths(favorites_str) ELSE <<>> ] ]

\* The list without the path: list.remove(path) for a path the list holds
\* once.
without_path(list, path) ==
  LET other(p) == p # path IN SelectSeq(list, other)

\* An insert that does not look for the path in the list.
recent_insert_twice(list, path) == take(<<path>> \o list, max_recent_items)

\* The list add_to_recent_paths leaves: the path removed if it is there,
\* inserted at index 0, the list cut to max_recent_items.
recent_insert(list, path) == take(<<path>> \o without_path(list, path), max_recent_items)

\* History record of one call on the catalog.
Called(op, kind, path, result) ==
  [ op |-> op, kind |-> kind, path |-> path, result |-> result ]

-----------------------------------------------------------------------------
(* The launcher.  A file name is a sequence of one-character strings; a    *)
(* game path is a sequence of pieces, one character each but for the       *)
(* directory names steamapps and compatdata, which are kept whole.         *)

\* str.lower() of one character, for the letters of the names at hand.
lower_char(c) ==
  CASE c = "A" -> "a" [] c = "E" -> "e" [] c = "H" -> "h" [] c = "I" -> "i"
    [] c = "R" -> "r" [] c = "S" -> "s" [] c = "X" -> "x"
    [] OTHER -> c

\* f.lower()
lower(f) == [ i \in 1..Len(f) |-> lower_char(f[i]) ]

\* f.endswith(suffix)
endswith(f, suffix) ==
  /\ Len(suffix) <= Len(f)
  /\ SubSeq(f, Len(f) - Len(suffix) + 1, Len(f)) = suffix

\* The tuple ('.exe', '.AppImage', '.sh') of launch_game.
Suffixes ==
  { <<".", "e", "x", "e">>,
    <<".", "A", "p", "p", "I", "m", "a", "g", "e">>,
    <<".", "s", "h">> }

\* f.lower().endswith(('.exe', '.AppImage', '.sh'))
is_exe(f) == \E suffix \in Suffixes : endswith(lower(f), suffix)

\* exes = [f for f in os.listdir(self.game_path) if ...]
find_exes(listing) == SelectSeq(listing, is_exe)

\* "steamapps/compatdata/"
SteamMarker == <<"steamapps", "/", "compatdata", "/">>

\* The places where the marker begins in the path.
marker_at(path) ==
  { i \in 1..Len(path) :
      /\ i + Len(SteamMarker) - 1 <= Len(path)
      /\ SubSeq(path, i, i + Len(SteamMarker) - 1) = SteamMarker }

\* "steamapps/compatdata/" in self.game_path
is_steam_game(path) == marker_at(path) # {}

\* self.game_path.split("steamapps/compatdata/")[1].split("/")[0]: what
\* follows the first marker, up to the next "/".  (Where the marker follows
\* itself at once, Python's piece is empty and this one is "steamapps":
\* neither is a number.)
steam_id_path(path) ==
  LET first == CHOOSE i \in marker_at(path) : \A j \in marker_at(path) : i <= j
      rest  == SubSeq(path, first + Len(SteamMarker), Len(path))
      bars  == Positions(rest, "/")
  IN  IF bars = {} THEN rest
      ELSE SubSeq(rest, 1, (CHOOSE b \in bars : \A c \in bars : b <= c) - 1)

Digits == { "0", "1", "2", "3", "4", "5", "6", "7", "8", "9" }

\* A test that takes every text for a number.
isdigit_any(text) == TRUE

\* str.isdigit(): not empty, digits only.
isdigit(text) == text # <<>> /\ \A i \in 1..Len(text) : text[i] \in Digits

\* steam_id of launch_game: the number after the marker, <<>> for None.
steam_id(path) ==
  IF is_steam_game(path) /\ isdigit(steam_id_path(path))
  THEN steam_id_path(path) ELSE <<>>

\* The launcher at rest, nothing launched yet.  As history: the handler
\* that ran last and the step at which it ran, whether the launch through
\* Steam was offered and with which id, whether choose_executable was shown
\* during the launch, what it returned, the name handed to
\* subprocess.Popen (<<>> for none), the id of the steam://rungameid/ URL
\* handed to xdg-open (<<>> for none), the number of calls of
\* subprocess.Popen and the error shown ("" for none).
Idle ==
  [ pc |-> "idle", exes |-> <<>>, op |-> "init", step |-> 0,
    offered |-> FALSE, steam_id |-> <<>>,
    asked |-> FALSE, chosen |-> <<>>, spawned |-> <<>>,
    steam_spawned |-> <<>>, spawns |-> 0, error |-> "" ]

\* subprocess.Popen([exe_path]) starts the program or raises, which
\* launch_game reports.
Popen(state, exe_file) ==
  { [ state EXCEPT !.pc = "idle", !.spawned = exe_file, !.spawns = @ + 1,
                   !.error = e ] :
      e \in { "", "launch_failed" } }

\* subprocess.Popen(["xdg-open", steam_url]) with
\* steam_url = f"steam://rungameid/{steam_id}"
PopenSteam(state, id) ==
  { [ state EXCEPT !.pc = "idle", !.steam_spawned = id, !.spawns = @ + 1,
                   !.error = e ] :
      e \in { "", "launch_failed" } }

-----------------------------------------------------------------------------
(* The handlers.                                                           *)

Init ==
  /\ mods_data = <<>>
  /\ mods_file = NoFile
  /\ mods_folder = [ n \in DestNames |-> "none" ]
  /\ mod_tree = <<>>
  /\ ops = 0
  /\ mishaps = {}
  /\ last = Done("init", "ok", NoSel)
  /\ game_path = FreshCatalog.game_path
  /\ mods_folder_path = FreshCatalog.mods_folder
  /\ recent_paths = FreshCatalog.recent_paths
  /\ favorites = FreshCatalog.favorites
  /\ config_file = NoConfig
  /\ recent_log = [ k \in RecentKinds |-> <<>> ]
  /\ extras = 0
  /\ called = Called("init", "", <<>>, "ok")
  /\ game_dir = <<>>
  /\ launch = Idle

\* Every step is counted, whatever it does.
Step == ops < MaxOps /\ ops' = ops + 1

\* The results with which a handler ends in an exception.
Exceptions == { "copy_failed", "delete_failed", "save_failed", "name_error" }

\* No two records of the list have the same file_path.
unique_paths(data) ==
  \A i, j \in 1..Len(data) : i # j => data[i].file_path # data[j].file_path

\* History of a step that ends with the given result and leaves the
\* registry data.
Finish(op, result, sel, data) ==
  /\ last' = Done(op, result, sel)
  /\ mishaps' = mishaps
                 \cup (IF result \in Exceptions THEN { "exception" } ELSE {})
                 \cup (IF unique_paths(data) THEN {} ELSE { "duplicate" })

\* What every handler does after a save: refresh_mod_list when the save
\* went through; when it raised, the view stays as it was.
Saved(s, data) ==
  /\ mods_file' = s.file
  /\ mod_tree' = IF s.ok THEN refresh_mod_list(data) ELSE mod_tree

\* The common tail of the two installs: copy, then append, save, refresh.
\* An exception from the copy or the save ends the handler in its except
\* clause, with whatever was done before it left in place.
install(op, mod_data, copies) ==
  /\ Step
  /\ \E c \in copies :
       /\ mods_folder' = [ mods_folder EXCEPT ![mod_data.file_path] = c.entry ]
       /\ mods_data' = register(mods_data, mod_data, c.ok)
       /\ IF c.ok
          THEN \E s \in save_mods_data(mods_data') :
                 /\ Saved(s, mods_data')
                 /\ Finish(op, IF s.ok THEN "ok" ELSE "save_failed", NoSel, mods_data')
          ELSE /\ UNCHANGED <<mods_file, mod_tree>>
               /\ Finish(op, "copy_failed", NoSel, mods_data')

install_mod_file(file_path) ==
  LET filename == basename(file_path)
      mod_name == splitext(filename)
      mod_data == mod_entry(Len(mods_data), mod_name, filename, file_path, "file")
  IN  install("install_file", mod_data, copy2(mods_folder[filename]))

install_mod_folder(folder_path) ==
  LET folder_name == basename(folder_path)
      mod_data == mod_entry(Len(mods_data), folder_name, folder_name, folder_path, "folder")
  IN  install("install_folder", mod_data, copytree(mods_folder[folder_name]))

\* remove_mod on the selected row, the confirmation answered yes.
remove_mod(row) ==
  /\ row \in 1..Len(mod_tree)
  /\ Step
  /\ LET mod_name  == mod_tree[row].text
         mod_index == find_mod(mods_data, mod_name)
     IN  IF mod_index = 0
         THEN /\ UNCHANGED <<mods_data, mods_file, mods_folder, mod_tree>>
              /\ Finish("remove", "not_found", Sel(row, 0), mods_data)
         ELSE LET mod    == mods_data[mod_index]
                  entry  == mods_folder[mod.file_path]
              IN  \E d \in remove_payload(mod.type, entry) :
                    LET sel == [ Sel(row, mod_index) EXCEPT
                                   !.exists = (entry # "none"),
                                   !.attempted = d.attempted ]
                    IN  /\ mods_folder' = [ mods_folder EXCEPT ![mod.file_path] = d.entry ]
                        /\ mods_data' = unregister(mods_data, mod_index, d.ok)
                        /\ IF d.ok
                           THEN \E s \in save_mods_data(mods_data') :
                                  /\ Saved(s, mods_data')
                                  /\ Finish("remove",
                                            IF s.ok THEN "ok" ELSE "save_failed",
                                            sel, mods_data')
                           ELSE /\ UNCHANGED <<mods_file, mod_tree>>
                                /\ Finish("remove", "delete_failed", sel, mods_data')

\* toggle_mod on the selected row.  The save is outside any try: when it
\* raises, the flipped flag stays in memory and the view is not refreshed.
\* The status line reads the loop variable mod after the loop, which is
\* unbound when mods_data is empty.
toggle_mod(row) ==
  /\ row \in 1..Len(mod_tree)
  /\ Step
  /\ LET mod_name == mod_tree[row].text
         hit      == find_mod(mods_data, mod_name)
         toggled  == IF hit = 0 THEN mods_data
                     ELSE [ mods_data EXCEPT ![hit].enabled = ~ mods_data[hit].enabled ]
     IN  \E s \in save_mods_data(toggled) :
           /\ mods_data' = toggled
           /\ Saved(s, toggled)
           /\ Finish("toggle",
                     IF ~ s.ok THEN "save_failed"
                     ELSE IF toggled = <<>> THEN "name_error" ELSE "ok",
                     Sel(row, hit), toggled)
           /\ UNCHANGED mods_folder

\* move_mod(direction) on the selected row; direction is -1 (up) or 1 (down).
move_mod(row, direction) ==
  /\ row \in 1..Len(mod_tree)
  /\ Step
  /\ LET mod_name  == mod_tree[row].text
         mod_index == find_mod(mods_data, mod_name)
         new_index == mod_index + direction
         sel       == [ Sel(row, mod_index) EXCEPT !.direction = direction ]
     IN  IF mod_index = 0
         THEN /\ UNCHANGED <<mods_data, mods_file, mods_folder, mod_tree>>
              /\ Finish("move", "not_found", sel, mods_data)
         ELSE IF ~ (1 <= new_index /\ new_index <= Len(mods_data))
         THEN /\ UNCHANGED <<mods_data, mods_file, mods_folder, mod_tree>>
              /\ Finish("move", "boundary", sel, mods_data)
         ELSE /\ mods_data' = update_priorities(swap(mods_data, mod_index, new_index))
              /\ \E s \in save_mods_data(mods_data') :
                   /\ Saved(s, mods_data')
                   /\ Finish("move", IF s.ok THEN "ok" ELSE "save_failed", sel, mods_data')
              /\ UNCHANGED mods_folder

\* Outside the program: the user deletes a payload from the mods folder.
external_delete(n) ==
  /\ Step
  /\ mods_folder[n] # "none"
  /\ mods_folder' = [ mods_folder EXCEPT ![n] = "none" ]
  /\ UNCHANGED <<mods_data, mods_file, mod_tree>>
  /\ Finish("external", "ok", NoSel, mods_data)

\* What a call on the catalog leaves of the history of the calls.
Recorded(op, kind, path, result, log) ==
  /\ called' = Called(op, kind, path, result)
  /\ recent_log' = log

\* add_to_recent_paths(path_type, path): exists is what os.path.exists
\* says of the path, outcome what the save does.  An exception from
\* save_config leaves the list as the call changed it.
add_to_recent_paths(path_type, path, exists, outcome) ==
  IF path # <<>> /\ exists
  THEN LET recent == [ recent_paths EXCEPT ![path_type] = recent_insert(@, path) ]
           s == save_config(config_file,
                            config_values(game_path, mods_folder_path, recent, favorites),
                            outcome)
       IN  /\ recent_paths' = recent
           /\ config_file' = s.file
           /\ Recorded("add_to_recent_paths", path_type, path,
                       IF s.ok THEN "ok" ELSE "save_failed",
                       [ recent_log EXCEPT ![path_type] = Append(@, path) ])
           /\ UNCHANGED <<game_path, mods_folder_path, favorites>>
  ELSE /\ Recorded("add_to_recent_paths", path_type, path, "ignored", recent_log)
       /\ UNCHANGED <<game_path, mods_folder_path, recent_paths, favorites, config_file>>

\* add_to_favorites(path_type, path)
add_to_favorites(path_type, path, exists, outcome) ==
  IF path # <<>> /\ exists /\ path \notin { favorites[path_type][i] : i \in 1..Len(favorites[path_type]) }
  THEN LET favs == [ favorites EXCEPT ![path_type] = Append(@, path) ]
           s == save_config(config_file,
                            config_values(game_path, mods_folder_path, recent_paths, favs),
                            outcome)
       IN  /\ favorites' = favs
           /\ config_file' = s.file
           /\ Recorded("add_to_favorites", path_type, path,
                       IF s.ok THEN "ok" ELSE "save_failed", recent_log)
           /\ UNCHANGED <<game_path, mods_folder_path, recent_paths>>
  ELSE /\ Recorded("add_to_favorites", path_type, path, "ignored", recent_log)
       /\ UNCHANGED <<game_path, mods_folder_path, recent_paths, favorites, config_file>>

\* select_game_path / select_mods_folder with the path the dialog returned,
\* which exists and passes os.access: the path is set, recorded as recent
\* (with a save of its own) and the configuration saved again.  When the
\* first save raises the second is not reached.
select_path(path_type, path, outcome1, outcome2) ==
  LET game   == IF path_type = "game" THEN path ELSE game_path
      mods   == IF path_type = "mods" THEN path ELSE mods_folder_path
      recent == [ recent_paths EXCEPT ![path_type] = recent_insert(@, path) ]
      values == config_values(game, mods, recent, favorites)
      s1     == save_config(config_file, values, outcome1)
      s2     == save_config(s1.file, values, outcome2)
  IN  /\ game_path' = game
      /\ mods_folder_path' = mods
      /\ recent_paths' = recent
      /\ config_file' = IF s1.ok THEN s2.file ELSE s1.file
      /\ Recorded(IF path_type = "game" THEN "select_game_path" ELSE "select_mods_folder",
                  path_type, path,
                  IF s1.ok /\ s2.ok THEN "ok" ELSE "save_failed",
                  [ recent_log EXCEPT ![path_type] = Append(@, path) ])
      /\ UNCHANGED favorites

select_game_path(path, outcome1, outcome2) == select_path("game", path, outcome1, outcome2)

select_mods_folder(path, outcome1, outcome2) == select_path("mods", path, outcome1, outcome2)

\* json.load failing on a store that is not a JSON document, or the store
\* missing: load_mods_data leaves the registry empty.
load_mods_data(file) ==
  IF file.kind = "json" THEN json_load(file.doc) ELSE <<>>

\* The program is closed and started again: __init__ builds a fresh
\* ModManager, load_config and load_mods_data read the two files and
\* refresh_mod_list fills the view.  The files and the mods folder stay.
restart ==
  /\ Step
  /\ LET c == load_config(config_file)
     IN  /\ game_path' = c.game_path
         /\ mods_folder_path' = c.mods_folder
         /\ recent_paths' = c.recent_paths
         /\ favorites' = c.favorites
  /\ mods_data' = load_mods_data(mods_file)
  /\ mod_tree' = refresh_mod_list(mods_data')
  /\ last' = Done("restart", "ok", NoSel)
  /\ Recorded("restart", "", <<>>, "ok", recent_log)
  /\ UNCHANGED <<mods_file, mods_folder, config_file, mishaps, extras, launch_vars>>

\* The handlers of the registry: none of them touches the path catalog.
Next ==
  /\ UNCHANGED <<catalog_vars, extras, launch_vars>>
  /\ \/ \E p \in FileSources : install_mod_file(p)
     \/ \E p \in FolderSources : install_mod_folder(p)
     \/ \E row \in 1..Len(mod_tree) : remove_mod(row)
     \/ \E row \in 1..Len(mod_tree) : toggle_mod(row)
     \/ \E row \in 1..Len(mod_tree) : \E direction \in {-1, 1} : move_mod(row, direction)

\* The program alone: nothing else touches the mods folder.
Spec == Init /\ [][Next]_vars

NextExt ==
  \/ Next
  \/ (\E n \in DestNames : external_delete(n)) /\ UNCHANGED <<catalog_vars, extras, launch_vars>>

\* The program with a user who may delete payloads behind its back.
SpecExt == Init /\ [][NextExt]_vars

\* Names a game folder can hold: executables by their extension, in upper
\* and lower case, and a file that is none.
ChildNames ==
  { <<"g", ".", "e", "x", "e">>,
    <<"R", ".", "S", "H">>,
    <<"a", ".", "A", "p", "p", "I", "m", "a", "g", "e">>,
    <<"n", ".", "t", "x", "t">> }

\* The listings of a folder that holds the given names: every order.
Listings(names) ==
  { l \in [ 1..Cardinality(names) -> names ] :
      \A i, j \in 1..Cardinality(names) : i # j => l[i] # l[j] }

\* The game folders the user can pick: one outside any Steam library; under
\* steamapps/compatdata, one below a numbered folder, one below a folder
\* whose name is not a number, and the compatdata folder itself.
GamePaths ==
  { <<"/", "g">>,
    <<"/", "steamapps", "/", "compatdata", "/", "4", "2", "/", "p">>,
    <<"/", "steamapps", "/", "compatdata", "/", "4", "x">>,
    <<"/", "steamapps", "/", "compatdata">> }

\* select_game_path with a folder that holds the given names in the given
\* order.
choose_game_folder(path, listing, outcome) ==
  /\ launch.pc = "idle"
  /\ select_game_path(path, "written", outcome)
  /\ game_dir' = listing
  /\ UNCHANGED launch

\* A launcher that forgets the game path.
launch_forgets ==
  /\ game_path' = <<>>
  /\ UNCHANGED <<mods_folder_path, recent_paths, favorites, config_file,
                 recent_log, called, game_dir>>

\* What a handler of the launcher leaves alone: launch_game and its
\* dialogs assign to no attribute of the ModManager and write no file.
launch_keeps == UNCHANGED <<catalog_vars, game_dir>>

\* "Normal launch (direct executable)" of launch_game for a game path that
\* is a directory.  With more than one executable the handler waits in
\* choose_executable, a modal dialog, for on_ok or on_cancel.
direct_launch(state) ==
  LET exes == find_exes(game_dir)
  IN  IF exes = <<>>
      THEN { [ state EXCEPT !.pc = "idle", !.error = "no_executable" ] }
      ELSE IF Len(exes) > 1
      THEN { [ state EXCEPT !.pc = "choosing", !.exes = exes, !.asked = TRUE ] }
      ELSE Popen(state, exes[1])

\* launch_game, os.path.exists(self.game_path) being as given.  For a
\* Steam path with an id the handler first waits in the askyesno dialog
\* "Launch Method" for on_steam_answer.
launch_game(exists) ==
  /\ launch.pc = "idle"
  /\ launch_keeps
  /\ LET started == [ Idle EXCEPT !.op = "launch_game", !.step = ops + 1 ]
     IN  IF game_path = <<>> \/ ~ exists
         THEN launch' = [ started EXCEPT !.error = "no_game_path" ]
         ELSE IF steam_id(game_path) # <<>>
         THEN launch' = [ started EXCEPT !.pc = "asking_steam", !.offered = TRUE,
                                         !.steam_id = steam_id(game_path) ]
         ELSE launch' \in direct_launch(started)

\* The answer to "Would you like to launch through Steam?": yes hands the
\* steam URL to xdg-open and returns; no goes on with the direct launch.
on_steam_answer(yes) ==
  /\ launch.pc = "asking_steam"
  /\ launch_keeps
  /\ LET answered == [ launch EXCEPT !.op = IF yes THEN "steam_yes" ELSE "steam_no",
                                     !.step = ops + 1 ]
     IN  IF yes
         THEN launch' \in PopenSteam(answered, launch.steam_id)
         ELSE launch' \in direct_launch(answered)

\* OK in choose_executable with the given row selected: the launch goes on
\* with that executable.
on_ok(index) ==
  /\ launch.pc = "choosing"
  /\ index \in 1..Len(launch.exes)
  /\ launch_keeps
  /\ launch' \in Popen([ launch EXCEPT !.op = "on_ok", !.step = ops + 1,
                                         !.chosen = launch.exes[index] ],
                        launch.exes[index])

\* Cancel in choose_executable: launch_game returns.
on_cancel ==
  /\ launch.pc = "choosing"
  /\ launch_keeps
  /\ launch' = [ launch EXCEPT !.pc = "idle", !.op = "on_cancel", !.step = ops + 1 ]

\* The handlers of the launcher and the game folder picked and picked
\* again.
launcher ==
  /\ Step
  /\ UNCHANGED <<registry_vars, extras>>
  /\ \/ \E path \in GamePaths :
          \E names \in { c \in SUBSET ChildNames : Cardinality(c) <= MaxChildren } :
            \E listing \in Listings(names) : choose_game_folder(path, listing, "written")
     \/ \E exists \in BOOLEAN : launch_game(exists)
     \/ \E yes \in BOOLEAN : on_steam_answer(yes)
     \/ \E index \in 1..Len(launch.exes) : on_ok(index)
     \/ on_cancel

\* The launcher, used after a first mod was or was not installed.
NextLaunch ==
  /\ ops < MaxLaunchOps
  /\ \/ launcher
     \/ /\ ops = 0
        /\ UNCHANGED <<catalog_vars, extras, launch_vars>>
        /\ \E p \in FileSources : install_mod_file(p)

SpecLaunch == Init /\ [][NextLaunch]_vars

\* The registry handlers with the program closed and started again at any
\* point.
NextReload ==
  \/ Next
  \/ restart

SpecReload == Init /\ [][NextReload]_vars

\* Paths offered to the catalog: a plain one, one that holds the list
\* delimiter, one that ends in a space.
ConfigPaths ==
  { <<"/", "a">>, <<"/", "a", "|", "b">>, <<"/", "a", " ">> }

\* The calls on the path catalog, any kinds and paths in any order, with
\* the program closed and started again at any point.
NextConfig ==
  /\ ops < MaxConfigOps
  /\ \/ /\ Step
        /\ UNCHANGED <<registry_vars, extras, launch_vars>>
        /\ \E path \in ConfigPaths, outcome \in SaveOutcomes :
             \/ \E k \in RecentKinds : add_to_recent_paths(k, path, TRUE, outcome)
             \/ \E k \in FavoriteKinds : add_to_favorites(k, path, TRUE, outcome)
             \/ select_game_path(path, "written", outcome)
             \/ select_mods_folder(path, "written", outcome)
     \/ restart

SpecConfig == Init /\ [][NextConfig]_vars

\* The names of the paths of RecentPool.
Letters == <<"a", "b", "c", "d", "e", "f", "g", "h", "i", "j", "k", "l", "m", "n">>

\* Paths that exist, for the long runs on the recent lists: the n-th path
\* inserted into a list is RecentPool[n], the paths being interchangeable.
RecentPool == [ n \in 1..Len(Letters) |-> <<"/", Letters[n]>> ]

\* The paths a log holds.
logged(log) == { log[i] : i \in 1..Len(log) }

\* Long runs of add_to_recent_paths on one list at a time: first inserts of
\* up to MaxInserts paths, and up to MaxExtras calls of the other sorts: a
\* path of the log inserted again, an empty path, a path that does not
\* exist, a save that raises.
NextRecent ==
  /\ UNCHANGED <<registry_vars, ops, launch_vars>>
  /\ \E k \in RecentKinds :
       /\ \A j \in RecentKinds \ {k} : recent_log[j] = <<>>
       /\ LET n == Cardinality(logged(recent_log[k]))
              fresh == RecentPool[n + 1]
          IN  \/ /\ n < MaxInserts /\ n < Len(Letters)
                 /\ add_to_recent_paths(k, fresh, TRUE, "written")
                 /\ extras' = extras
              \/ /\ extras < MaxExtras
                 /\ extras' = extras + 1
                 /\ \/ \E path \in logged(recent_log[k]) :
                         add_to_recent_paths(k, path, TRUE, "written")
                    \/ add_to_recent_paths(k, <<>>, FALSE, "written")
                    \/ /\ n < Len(Letters)
                       /\ add_to_recent_paths(k, fresh, FALSE, "written")
                    \/ /\ n < MaxInserts /\ n < Len(Letters)
                       /\ \E outcome \in SaveOutcomes \ { "written" } :
                            add_to_recent_paths(k, fresh, TRUE, outcome)

SpecRecent == Init /\ [][NextRecent]_vars

-----------------------------------------------------------------------------
(* Properties.                                                             *)

Records == 1..Len(mods_data)

\* The handlers that change the registry.
Mutating == { "install_file", "install_folder", "remove", "toggle", "move" }

\* What a completed save leaves in the store for the registry as it is now.
Flushed == mods_file.kind = "json" /\ mods_file.doc = json_dump(mods_data)

\* C1: after every operation, successful or failed, the priorities of the
\* records are exactly 0..N-1 for a registry of N records: every value of
\* 0..N-1 is some record's priority and no two records share one.
C1_DensePriorities ==
  /\ { mods_data[i].priority : i \in Records } = 0..(Len(mods_data) - 1)
  /\ \A i, j \in Records : i # j => mods_data[i].priority # mods_data[j].priority

\* C1's case: the first of at least three records was removed, so every
\* remaining record had to be renumbered.
C1_Witness ==
  /\ last.op = "remove" /\ last.result = "ok" /\ last.hit = 1
  /\ Len(mods_data) >= 2

\* C2: no two live records have the same id.  Stated for the plainest
\* runs: no handler has raised and no path was ever registered twice.
C2_UniqueIds ==
  mishaps = {} =>
    \A i, j \in Records : i # j => mods_data[i].id # mods_data[j].id

\* C3: no two live records have the same file_path, so no path of the
\* mods folder is claimed by two records.  Stated for the runs in which no
\* handler has raised.
C3_UniquePaths ==
  "exception" \notin mishaps => unique_paths(mods_data)

\* C4: when a mutating operation (install, remove, toggle, a move that is
\* not at the boundary) ends successfully, the store holds exactly the
\* in-memory list of records.
C4_SuccessIsFlushed ==
  (last.op \in Mutating /\ last.result = "ok") => Flushed

\* C4's case: a move succeeded on a registry of two or more records.
C4_Witness ==
  /\ last.op = "move" /\ last.result = "ok"
  /\ Len(mods_data) >= 2
  /\ Flushed

\* C5: when writing the store fails during a mutating operation, the
\* in-memory registry after the operation equals the one before it.
C5_RollbackOnFailedFlush ==
  [][ last'.result = "save_failed" => mods_data' = mods_data ]_vars

\* C6: when the payload copy of an install fails, the registry is
\* unchanged, in memory and in the store.
C6_FailedCopyLeavesRegistry ==
  [][ last'.result = "copy_failed" =>
        (mods_data' = mods_data /\ mods_file' = mods_file) ]_vars

\* C6's case: a copy failed partway (it left a partial payload behind) on a
\* registry that holds records and has been saved.
C6_Witness ==
  /\ last.result = "copy_failed"
  /\ \E n \in DestNames : mods_folder[n] \in { "partial_file", "partial_dir" }
  /\ mods_data # <<>>
  /\ mods_file.kind = "json"

\* C7: after a failed install the mods folder holds no payload, whole or
\* partial, that no record of the registry claims.
C7_NoOrphanAfterFailedCopy ==
  last.result = "copy_failed" =>
    \A n \in DestNames :
      mods_folder[n] # "none" => \E i \in Records : mods_data[i].file_path = n

\* C8: with nothing but the program touching the mods folder, the payload
\* of every live record exists on disk.  Stated for the runs in which no
\* handler has raised.
C8_PayloadExists ==
  "exception" \notin mishaps =>
    \A i \in Records : mods_folder[mods_data[i].file_path] # "none"

\* C9: a remove, toggle or move that goes through acts on the record the
\* selected row stands for, whatever other record shares its display name.
\* Stated for the plainest runs: no handler has raised and no path was ever
\* registered twice.
C9_ActsOnSelected ==
  ( /\ last.op \in { "remove", "toggle", "move" } /\ last.result = "ok"
    /\ last.target # 0
    /\ mishaps = {} )
    => last.hit = last.target

\* Two records that differ in nothing but the priority.
SameButPriority(a, b) == a = [ b EXCEPT !.priority = a.priority ]

C11_FailedDeleteKeepsRecord ==
  [][ (last'.op = "remove" /\ last'.result = "delete_failed") =>
        (mods_data' = mods_data /\ mods_file' = mods_file) ]_vars

\* C11's case: the delete of a payload that exists was attempted and
\* raised, on a registry that has been saved; the record is still there.
C11_Witness ==
  /\ last.op = "remove" /\ last.result = "delete_failed"
  /\ last.exists /\ last.attempted
  /\ mods_file.kind = "json"
  /\ last.hit \in Records

\* The two install handlers.
Installs == { "install_file", "install_folder" }

\* C12: a successful install into a registry of N records adds exactly one
\* record, with id N, priority N and enabled, last in the load order, and
\* leaves every record that was there as it was.
C12_InstallAppends ==
  [][ (last'.op \in Installs /\ last'.result = "ok") =>
        LET N == Len(mods_data)
        IN  /\ Len(mods_data') = N + 1
            /\ mods_data'[N + 1].id = N
            /\ mods_data'[N + 1].priority = N
            /\ mods_data'[N + 1].enabled = TRUE
            /\ \A i \in 1..N :
                 /\ mods_data'[i] = mods_data[i]
                 /\ mods_data'[i].priority < N
    ]_vars

\* C12's case: a folder was installed into a registry that already held a
\* record, one of them disabled by an earlier toggle.
C12_Witness ==
  /\ last.op = "install_folder" /\ last.result = "ok"
  /\ Len(mods_data) >= 2
  /\ \E i \in Records : ~ mods_data[i].enabled

\* The registry without the record at index k, the rest in their order and
\* renumbered 0..N-2 with no other field changed.
Without(data, k) ==
  [ i \in 1..(Len(data) - 1) |->
      [ data[IF i < k THEN i ELSE i + 1] EXCEPT !.priority = i - 1 ] ]

\* C13: a successful remove deletes exactly the record the selected row
\* stands for and renumbers the remaining records 0..N-2 in the order they
\* had, changing no other field.  Stated for the plainest runs: no handler
\* has raised and no path was ever registered twice.
C13_RemoveDeletesTarget ==
  [][ ( /\ last'.op = "remove" /\ last'.result = "ok"
        /\ last'.target # 0
        /\ mishaps' = {} )
        => mods_data' = Without(mods_data, last'.target) ]_vars

\* The index of the record with priority q.
at_priority(data, q) == CHOOSE k \in 1..Len(data) : data[k].priority = q

\* The move asks the record at index t to go past a boundary of the load
\* order: up from priority 0 or down from priority N-1.
AtBoundary(data, t, direction) ==
  \/ direction = -1 /\ data[t].priority = 0
  \/ direction = 1 /\ data[t].priority = Len(data) - 1

\* C14: a move by -1 or +1 of a record that is not at the corresponding
\* boundary exchanges the priority of the record the selected row stands
\* for with that of the record whose priority is the target's plus the
\* direction, and leaves every other priority as it was.  Stated for the
\* plainest runs: no handler has raised and no path was ever registered
\* twice, so a record is known by its file_path.
C14_MoveExchangesPriorities ==
  [][ ( /\ last'.op = "move" /\ last'.target # 0
        /\ mishaps' = {}
        /\ ~ AtBoundary(mods_data, last'.target, last'.direction) )
        => LET t == last'.target
               n == at_priority(mods_data, mods_data[t].priority + last'.direction)
           IN  /\ Len(mods_data') = Len(mods_data)
               /\ \A i \in 1..Len(mods_data) :
                    \E j \in 1..Len(mods_data') :
                      /\ mods_data'[j].file_path = mods_data[i].file_path
                      /\ mods_data'[j].priority =
                           IF i = t THEN mods_data[n].priority
                           ELSE IF i = n THEN mods_data[t].priority
                           ELSE mods_data[i].priority
    ]_vars

\* C15: a move up of the record with priority 0, or down of the record
\* with priority N-1, is a no-op and not an error: the in-memory registry
\* and the store are unchanged.  The record is the one the selected row
\* stands for.  Stated for the plainest runs, as C14.
C15_MoveAtBoundaryIsNoOp ==
  [][ ( /\ last'.op = "move" /\ last'.target # 0
        /\ mishaps' = {}
        /\ AtBoundary(mods_data, last'.target, last'.direction) )
        => ( /\ mods_data' = mods_data
             /\ mods_file' = mods_file
             /\ last'.result = "boundary" ) ]_vars

\* C16: an install whose destination name is the file_path of a live
\* record adds no second record: the registry is unchanged and the install
\* does not end in success.
C16_DuplicatePathRejected ==
  [][ \A i \in 1..Len(mods_data) :
        ( /\ last'.op \in Installs
          /\ Len(mods_data') > Len(mods_data)
          /\ "exception" \notin mishaps' )
          => mods_data'[Len(mods_data')].file_path # mods_data[i].file_path
    ]_vars

\* The paths of a log from the latest call back, each path once, at its
\* latest call.
RECURSIVE latest_first(_)
latest_first(log) ==
  IF log = <<>> THEN <<>>
  ELSE LET path == log[Len(log)]
       IN  <<path>> \o without_path(latest_first(SubSeq(log, 1, Len(log) - 1)), path)

Catalog ==
  [ game_path    |-> game_path,
    mods_folder  |-> mods_folder_path,
    recent_paths |-> recent_paths,
    favorites    |-> favorites ]

\* The configuration file holds what save_config writes for the catalog as
\* it is now.
ConfigFlushed ==
  /\ config_file.kind = "ini"
  /\ config_file.values = config_values(game_path, mods_folder_path, recent_paths, favorites)

\* C19: the path catalog persisted and then reloaded is the same game
\* path, mods folder, recent lists in the same order and favorites, for
\* every catalog reached through the calls on it, whatever characters the
\* paths hold.
C19_ConfigRoundTrip ==
  [][ (called'.op = "restart" /\ ConfigFlushed) => Catalog' = Catalog ]_vars

\* The extension of a file name: what follows its last dot, in lower case.
extension(f) ==
  LET dots == Positions(f, ".")
  IN  IF dots = {} THEN <<>> ELSE lower(SubSeq(f, SetMax(dots) + 1, Len(f)))

\* The executable extensions: exe, AppImage, sh.
ExecutableExtensions ==
  { <<"e", "x", "e">>, <<"a", "p", "p", "i", "m", "a", "g", "e">>, <<"s", "h">> }

\* The children of the game folder whose extension is an executable one.
matching_children ==
  LET matching(f) == extension(f) \in ExecutableExtensions
  IN  SelectSeq(game_dir, matching)

\* C20: a direct launch from a game path that is a directory.  With no
\* child matching the executable extensions nothing is spawned and an
\* error is reported; with exactly one, that child is spawned without
\* asking; with more than one, nothing is spawned until choose_executable
\* has returned, what is spawned is the executable chosen, and nothing when
\* the choice was cancelled.
C20_LaunchByMatches ==
  ( /\ launch.step = ops /\ launch.step > 0 /\ launch.error # "no_game_path"
    /\ launch.pc # "asking_steam" /\ launch.op # "steam_yes" ) =>
    LET n == Len(matching_children)
    IN  /\ n = 0 => (launch.spawned = <<>> /\ launch.error = "no_executable")
        /\ n = 1 => (launch.spawned = matching_children[1] /\ ~ launch.asked)
        /\ n > 1 =>
             /\ launch.asked
             /\ launch.pc = "choosing" => launch.spawned = <<>>
             /\ launch.op = "on_cancel" => launch.spawned = <<>>
             /\ launch.op = "on_ok" =>
                  /\ launch.spawned = launch.chosen
                  /\ \E i \in 1..n : matching_children[i] = launch.chosen

\* The path cut at every "/".
path_segments(path) ==
  LET cuts  == {0} \cup Positions(path, "/") \cup {Len(path) + 1}
      n     == Cardinality(cuts)
      order == CHOOSE f \in [1..n -> cuts] : \A i, j \in 1..n : i < j => f[i] < f[j]
  IN  [ k \in 1..(n - 1) |-> SubSeq(path, order[k] + 1, order[k + 1] - 1) ]

\* The segment that follows the first steamapps/compatdata/ of the path
\* when it is a number, <<>> otherwise.
sandbox_id(path) ==
  LET segs  == path_segments(path)
      marks == { i \in 1..(Len(segs) - 2) :
                   segs[i] = <<"steamapps">> /\ segs[i + 1] = <<"compatdata">> }
  IN  IF marks = {} THEN <<>>
      ELSE LET id == segs[(CHOOSE i \in marks : \A j \in marks : i <= j) + 2]
           IN  IF id # <<>> /\ (\A k \in 1..Len(id) : id[k] \in Digits)
               THEN id ELSE <<>>

C22_LaunchKeepsState ==
  [][ launch' # launch =>
        UNCHANGED <<mods_data, mods_file, game_path, mods_folder_path,
                    recent_paths, favorites, config_file>> ]_vars

\* A spawn that failed after the choice among several executables, with a
\* mod registered and a game path configured.
C22_Witness ==
  /\ launch.step = ops
  /\ launch.op = "on_ok"
  /\ launch.error = "launch_failed"
  /\ game_path # <<>>
  /\ config_file.kind = "ini"
  /\ Len(mods_data) > 0

\* C23: a toggle on a present record flips the enabled flag of the record
\* the selected row stands for and changes nothing else: the number of
\* records, their order and every other field of every record are as they
\* were (so a second toggle of the record restores the registry).  Stated
\* for the plainest runs: no handler has raised and no path was ever
\* registered twice.
C23_ToggleFlipsTarget ==
  [][ ( /\ last'.op = "toggle" /\ last'.target # 0
        /\ mishaps' = {} )
        => mods_data' = [ mods_data EXCEPT ![last'.target].enabled =
                                              ~ mods_data[last'.target].enabled ]
    ]_vars

\* C24: the record at list position i has priority i (positions here count
\* from 1, Python's from 0), so the stored order is the priority order the
\* view shows.
C24_PositionIsPriority ==
  /\ \A i \in Records : mods_data[i].priority = i - 1
  /\ sorted_mods(mods_data) = mods_data
  /\ (last.result = "ok" /\ last.op \in Mutating) =>
       \A i \in Records : mod_tree[i].file_path = mods_data[i].file_path

\* C24's case: a record of three was moved down, which changes the stored
\* order, and the view was refreshed.
C24_Witness ==
  /\ last.op = "move" /\ last.result = "ok" /\ last.direction = 1
  /\ Len(mods_data) = 3
  /\ mods_data[1].id # 0

====
